---- MODULE Spec2Model ----
(***************************************************************************)
(* Model of the ctbend pointing-correction models (CTBendBase.py,          *)
(* CTBend.py): the term tables of CTBendBasic4 / CTBendBasic8, forward     *)
(* evaluation, parameter resolution, the factory and the inversion loop.   *)
(*                                                                         *)
(* Numbers.  The program computes in floating point; the model computes    *)
(* exactly in the field Q(sqrt 3): a number is [a, b, d] and stands for    *)
(* (a + b*sqrt(3)) / d, kept in lowest terms with d > 0.  Angles are       *)
(* multiples of 30 degrees, whose sine and cosine lie in that field.       *)
(***************************************************************************)
EXTENDS Integers, Sequences, FiniteSets, TLC

----------------------------------------------------------------------------
(* Exact arithmetic in Q(sqrt 3) *)

AbsInt(n) == IF n < 0 THEN -n ELSE n

RECURSIVE GCD(_, _)
GCD(m, n) == IF n = 0 THEN m ELSE GCD(n, m % n)

Norm(a, b, d) ==
    LET s == IF d < 0 THEN -1 ELSE 1
        g == GCD(GCD(AbsInt(a), AbsInt(b)), AbsInt(d))
    IN  [a |-> (s * a) \div g, b |-> (s * b) \div g, d |-> (s * d) \div g]

Rat(n, d) == Norm(n, 0, d)
Num(n) == [a |-> n, b |-> 0, d |-> 1]
Zero == Num(0)

Add(x, y) == Norm(x.a * y.d + y.a * x.d, x.b * y.d + y.b * x.d, x.d * y.d)
Neg(x) == [a |-> -x.a, b |-> -x.b, d |-> x.d]
Sub(x, y) == Add(x, Neg(y))
Mul(x, y) == Norm(x.a * y.a + 3 * x.b * y.b, x.a * y.b + x.b * y.a, x.d * y.d)
\* 1/x = d*(a - b*sqrt 3) / (a^2 - 3 b^2); x # 0 is required
Inv(x) == Norm(x.d * x.a, -(x.d * x.b), x.a * x.a - 3 * x.b * x.b)
Div(x, y) == Mul(x, Inv(y))

\* sign of a + b*sqrt 3 (d > 0)
Sign(x) ==
    IF x.a >= 0 /\ x.b >= 0 THEN (IF x.a = 0 /\ x.b = 0 THEN 0 ELSE 1)
    ELSE IF x.a <= 0 /\ x.b <= 0 THEN -1
    ELSE IF x.a > 0 THEN (IF x.a * x.a > 3 * x.b * x.b THEN 1 ELSE -1)
    ELSE (IF 3 * x.b * x.b > x.a * x.a THEN 1 ELSE -1)

Abs(x) == IF Sign(x) < 0 THEN Neg(x) ELSE x
Leq(x, y) == Sign(Sub(y, x)) >= 0

----------------------------------------------------------------------------
(* numpy: radians, sin, cos, tan.  A radian value is [pn, pd], standing   *)
(* for (pn/pd)*pi.                                                         *)

radians(deg) ==
    LET g == GCD(AbsInt(deg), 180)
    IN  [pn |-> deg \div g, pd |-> 180 \div g]

RadZero == [pn |-> 0, pd |-> 1]

\* the angle as a multiple of pi/6, reduced to one turn (pd divides 6)
Twelfth(x) == (x.pn * (6 \div x.pd)) % 12

SinTable ==
    << Num(0), Rat(1, 2), Norm(0, 1, 2), Num(1), Norm(0, 1, 2), Rat(1, 2),
       Num(0), Rat(-1, 2), Norm(0, -1, 2), Num(-1), Norm(0, -1, 2), Rat(-1, 2) >>

sin(x) == SinTable[Twelfth(x) + 1]
cos(x) == SinTable[((Twelfth(x) + 3) % 12) + 1]
tan(x) == Div(sin(x), cos(x))

----------------------------------------------------------------------------
(* Coefficient expressions.  A term function of CTBend.py returns a dict   *)
(* whose values are arithmetic expressions over cos/sin/tan of az_rad and  *)
(* el_rad; the model keeps each expression as its syntax tree and          *)
(* evaluates it with Eval.                                                 *)

Const(k) == [op |-> "const", k |-> k]
SinOf(v) == [op |-> "sin", v |-> v]
CosOf(v) == [op |-> "cos", v |-> v]
TanOf(v) == [op |-> "tan", v |-> v]
NegE(x) == [op |-> "neg", x |-> x]
AddE(x, y) == [op |-> "add", l |-> x, r |-> y]
SubE(x, y) == [op |-> "sub", l |-> x, r |-> y]
MulE(x, y) == [op |-> "mul", l |-> x, r |-> y]
DivE(x, y) == [op |-> "div", l |-> x, r |-> y]

RECURSIVE Eval(_, _, _)
Eval(e, az_rad, el_rad) ==
    LET arg == IF e.v = "az" THEN az_rad ELSE el_rad
    IN  CASE e.op = "const" -> Num(e.k)
          [] e.op = "sin" -> sin(arg)
          [] e.op = "cos" -> cos(arg)
          [] e.op = "tan" -> tan(arg)
          [] e.op = "neg" -> Neg(Eval(e.x, az_rad, el_rad))
          [] e.op = "add" -> Add(Eval(e.l, az_rad, el_rad), Eval(e.r, az_rad, el_rad))
          [] e.op = "sub" -> Sub(Eval(e.l, az_rad, el_rad), Eval(e.r, az_rad, el_rad))
          [] e.op = "mul" -> Mul(Eval(e.l, az_rad, el_rad), Eval(e.r, az_rad, el_rad))
          [] e.op = "div" -> Div(Eval(e.l, az_rad, el_rad), Eval(e.r, az_rad, el_rad))

\* A Python dict literal, in insertion order: a sequence of items.
Item(name, coef) == [name |-> name, coef |-> coef]

Keys(items) == [i \in 1..Len(items) |-> items[i].name]
KeySet(items) == {items[i].name : i \in 1..Len(items)}
Lookup(items, name) == items[CHOOSE i \in 1..Len(items) : items[i].name = name].coef

----------------------------------------------------------------------------
(* CTBendBasic4 *)

Basic4_azimuth_model_terms ==
    << Item("IA", Const(-1)),
       Item("AW", MulE(NegE(CosOf("az")), TanOf("el"))),
       Item("AN", MulE(NegE(SinOf("az")), TanOf("el"))) >>

Basic4_azimuth_derivative_phi ==
    << Item("IA", Const(0)),
       Item("AW", MulE(SinOf("az"), TanOf("el"))),
       Item("AN", MulE(NegE(CosOf("az")), TanOf("el"))) >>

Basic4_azimuth_derivative_theta ==
    << Item("IA", Const(0)),
       Item("AW", DivE(NegE(CosOf("az")), MulE(CosOf("el"), CosOf("el")))),
       Item("AN", DivE(NegE(SinOf("az")), MulE(CosOf("el"), CosOf("el")))) >>

Basic4_elevation_model_terms ==
    << Item("IE", Const(1)),
       Item("AW", NegE(SinOf("az"))),
       Item("AN", NegE(CosOf("az"))) >>

Basic4_elevation_derivative_phi ==
    << Item("IE", Const(0)),
       Item("AW", NegE(CosOf("az"))),
       Item("AN", SinOf("az")) >>

Basic4_elevation_derivative_theta ==
    << Item("IE", Const(0)),
       Item("AW", Const(0)),
       Item("AN", Const(0)) >>

----------------------------------------------------------------------------
(* CTBendBasic8 *)

\* mutant: the sign of the AN coefficient slips
Basic8_azimuth_model_terms_SignSlip ==
    << Item("IA", Const(-1)),
       Item("NPAE", NegE(TanOf("el"))),
       Item("AW", MulE(NegE(CosOf("az")), TanOf("el"))),
       Item("AN", MulE(SinOf("az"), TanOf("el"))),
       Item("ACES", SinOf("az")),
       Item("ACEC", CosOf("az")) >>

Basic8_azimuth_model_terms ==
    << Item("IA", Const(-1)),
       Item("NPAE", NegE(TanOf("el"))),
       Item("AW", MulE(NegE(CosOf("az")), TanOf("el"))),
       Item("AN", MulE(NegE(SinOf("az")), TanOf("el"))),
       Item("ACES", SinOf("az")),
       Item("ACEC", CosOf("az")) >>

Basic8_azimuth_derivative_phi ==
    << Item("IA", Const(0)),
       Item("NPAE", Const(0)),
       Item("AW", MulE(SinOf("az"), TanOf("el"))),
       Item("AN", MulE(NegE(CosOf("az")), TanOf("el"))),
       Item("ACES", CosOf("az")),
       Item("ACEC", NegE(SinOf("az"))) >>

Basic8_azimuth_derivative_theta ==
    << Item("IA", Const(0)),
       Item("NPAE", DivE(Const(-1), MulE(CosOf("el"), CosOf("el")))),
       Item("AW", DivE(NegE(CosOf("az")), MulE(CosOf("el"), CosOf("el")))),
       Item("AN", DivE(NegE(SinOf("az")), MulE(CosOf("el"), CosOf("el")))),
       Item("ACES", Const(0)),
       Item("ACEC", Const(0)) >>

Basic8_elevation_model_terms ==
    << Item("IE", Const(1)),
       Item("AW", NegE(SinOf("az"))),
       Item("AN", NegE(CosOf("az"))),
       Item("TF", CosOf("el")) >>

Basic8_elevation_derivative_phi ==
    << Item("IE", Const(0)),
       Item("AW", NegE(CosOf("az"))),
       Item("AN", SinOf("az")),
       Item("TF", Const(0)) >>

\* mutant: d/d(el) cos(el) taken as sin(el)
Basic8_elevation_derivative_theta_SignSlip ==
    << Item("IE", Const(0)),
       Item("AW", Const(0)),
       Item("AN", Const(0)),
       Item("TF", SinOf("el")) >>

Basic8_elevation_derivative_theta ==
    << Item("IE", Const(0)),
       Item("AW", Const(0)),
       Item("AN", Const(0)),
       Item("TF", NegE(SinOf("el"))) >>

\* the registered variants (the classes of CTBend.py that derive from CTBendBase)
Variants == {"CTBendBasic4", "CTBendBasic8"}

\* the dict literal a method of a class builds
TermTable(cls, method) ==
    IF cls = "CTBendBasic4"
    THEN CASE method = "azimuth_model_terms" -> Basic4_azimuth_model_terms
           [] method = "azimuth_derivative_phi" -> Basic4_azimuth_derivative_phi
           [] method = "azimuth_derivative_theta" -> Basic4_azimuth_derivative_theta
           [] method = "elevation_model_terms" -> Basic4_elevation_model_terms
           [] method = "elevation_derivative_phi" -> Basic4_elevation_derivative_phi
           [] method = "elevation_derivative_theta" -> Basic4_elevation_derivative_theta
    ELSE CASE method = "azimuth_model_terms" -> Basic8_azimuth_model_terms
           [] method = "azimuth_derivative_phi" -> Basic8_azimuth_derivative_phi
           [] method = "azimuth_derivative_theta" -> Basic8_azimuth_derivative_theta
           [] method = "elevation_model_terms" -> Basic8_elevation_model_terms
           [] method = "elevation_derivative_phi" -> Basic8_elevation_derivative_phi
           [] method = "elevation_derivative_theta" -> Basic8_elevation_derivative_theta

\* calling a term method: the dict with every coefficient evaluated
CallTerms(cls, method, az_rad, el_rad) ==
    LET t == TermTable(cls, method)
    IN  [i \in 1..Len(t) |-> Item(t[i].name, Eval(t[i].coef, az_rad, el_rad))]

azimuth_model_terms(cls, az_rad, el_rad) == CallTerms(cls, "azimuth_model_terms", az_rad, el_rad)
elevation_model_terms(cls, az_rad, el_rad) == CallTerms(cls, "elevation_model_terms", az_rad, el_rad)

----------------------------------------------------------------------------
(* Outcomes of a call: a returned value or a raised exception.  `key` is   *)
(* the argument of the exception (the key of a KeyError, the attribute of  *)
(* an AttributeError).                                                     *)

Return(v) == [kind |-> "return", value |-> v, exc |-> "", key |-> ""]
Raise(exc, key) == [kind |-> "raise", value |-> Zero, exc |-> exc, key |-> key]

----------------------------------------------------------------------------
(* CTBendBase *)

\* An instance: its class and the attribute self.parameters set by __init__.
\* __init__ stores the payload as it is and looks at none of its keys.
NoObject == [cls |-> "", parameters |-> <<>>]
CTBendBase__init__(cls, parameters) == [cls |-> cls, parameters |-> parameters]

\* mutant: only the flat shape is read
model_parameters_FlatOnly(self) ==
    IF "mean" \in DOMAIN self.parameters
    THEN Return(self.parameters["mean"])
    ELSE Raise("KeyError", "mean")

\* property model_parameters: the nested shape first, the flat one on KeyError
model_parameters(self) ==
    LET P == self.parameters
    IN  IF "model" \in DOMAIN P /\ "mean" \in DOMAIN P["model"]
        THEN Return(P["model"]["mean"])
        ELSE IF "mean" \in DOMAIN P
             THEN Return(P["mean"])
             ELSE Raise("KeyError", "mean")

\* the loop `for term in term_dict.keys(): delta += p[term] * term_dict[term]`
\* from position i on, with the running sum delta
\* mutant: `delta = ...` for `delta += ...`
RECURSIVE SumTerms_Overwrite(_, _, _, _)
SumTerms_Overwrite(p, term_dict, i, delta) ==
    IF i > Len(term_dict) THEN Return(delta)
    ELSE LET term == term_dict[i].name
         IN  IF term \notin DOMAIN p THEN Raise("KeyError", term)
             ELSE SumTerms_Overwrite(p, term_dict, i + 1, Mul(p[term], term_dict[i].coef))

\* mutant: `p.get(term, 0.)` for `p[term]`
RECURSIVE SumTerms_DefaultZero(_, _, _, _)
SumTerms_DefaultZero(p, term_dict, i, delta) ==
    IF i > Len(term_dict) THEN Return(delta)
    ELSE LET term == term_dict[i].name
             value == IF term \in DOMAIN p THEN p[term] ELSE Zero
         IN  SumTerms_DefaultZero(p, term_dict, i + 1, Add(delta, Mul(value, term_dict[i].coef)))

RECURSIVE SumTerms(_, _, _, _)
SumTerms(p, term_dict, i, delta) ==
    IF i > Len(term_dict) THEN Return(delta)
    ELSE LET term == term_dict[i].name
         IN  IF term \notin DOMAIN p THEN Raise("KeyError", term)
             ELSE SumTerms(p, term_dict, i + 1, Add(delta, Mul(p[term], term_dict[i].coef)))

_pointing_correction(self, az, el, altaz) ==
    IF altaz \notin {"azimuth", "elevation"} THEN Raise("RuntimeError", altaz)
    ELSE LET p == model_parameters(self)
             az_rad == radians(az)
             el_rad == radians(el)
             term_dict == IF altaz = "azimuth"
                          THEN azimuth_model_terms(self.cls, az_rad, el_rad)
                          ELSE elevation_model_terms(self.cls, az_rad, el_rad)
         IN  IF p.kind = "raise" THEN p
             ELSE SumTerms(p.value, term_dict, 1, Zero)

delta_azimuth(self, az, el) == _pointing_correction(self, az, el, "azimuth")
delta_elevation(self, az, el) == _pointing_correction(self, az, el, "elevation")

\* str order of the parameter names (the order np.unique sorts by)
NameOrder == << "ACEC", "ACES", "AN", "AW", "IA", "IE", "NPAE", "TF" >>
Rank(name) == CHOOSE i \in 1..Len(NameOrder) : NameOrder[i] = name

\* mutant: the list as it is, neither sorted nor made unique
np_unique_AsGiven(name_list) == name_list

\* np.unique: the distinct elements of a list, sorted
RECURSIVE SortedSeq(_)
SortedSeq(S) ==
    IF S = {} THEN << >>
    ELSE LET m == CHOOSE x \in S : \A y \in S : Rank(x) <= Rank(y)
         IN  << m >> \o SortedSeq(S \ {m})

np_unique(name_list) == SortedSeq({name_list[i] : i \in 1..Len(name_list)})

model_parameter_names(self) ==
    LET name_list == Keys(azimuth_model_terms(self.cls, RadZero, RadZero))
                     \o Keys(elevation_model_terms(self.cls, RadZero, RadZero))
    IN  np_unique(name_list)

----------------------------------------------------------------------------
(* CTBend.bending_factory *)

\* what getattr(sys.modules[__name__], name) finds in module CTBend:
\* the names the module binds, and the kind of object each is bound to
ModuleAttrs ==
    [ CTBendBase |-> "abstract class", sys |-> "module",
      CTBendBasic4 |-> "class", CTBendBasic8 |-> "class",
      bending_factory |-> "function" ]

\* the outcome, and the object when one is built
bending_factory(model_json) ==
    IF "name" \notin DOMAIN model_json THEN Raise("KeyError", "name")
    ELSE LET requested_model == model_json["name"]
         IN  IF requested_model \notin DOMAIN ModuleAttrs
             THEN Raise("AttributeError", requested_model)
             ELSE IF ModuleAttrs[requested_model] = "class"
                  THEN Return(CTBendBase__init__(requested_model, model_json))
                  \* an abstract class, a module and a function that takes no
                  \* `parameters` keyword: the call raises TypeError
                  ELSE Raise("TypeError", requested_model)

----------------------------------------------------------------------------
(* Inputs: configuration payloads, names and angles *)

\* the values a parameter may take in a payload (degrees): zero or one
\* nonzero value of its own
ValuesOf(name) ==
    CASE name = "IA" -> {Zero, Rat(1, 10)}
      [] name = "IE" -> {Zero, Rat(-1, 2)}
      [] name = "AW" -> {Zero, Rat(1, 4)}
      [] name = "AN" -> {Zero, Rat(-1, 10)}

BaseMeans ==
    {f \in [{"IA", "IE", "AW", "AN"} -> {Zero, Rat(1, 10), Rat(-1, 2), Rat(1, 4), Rat(-1, 10)}] :
        \A n \in DOMAIN f : f[n] \in ValuesOf(n)}

\* the four names only Basic-8 uses: all zero, all nonzero, and all nonzero
\* beside a key no variant knows
ExtraMeans ==
    { [NPAE |-> Zero, ACES |-> Zero, ACEC |-> Zero, TF |-> Zero],
      [NPAE |-> Rat(1, 4), ACES |-> Rat(-1, 10), ACEC |-> Rat(1, 2), TF |-> Rat(1, 2)],
      [NPAE |-> Rat(1, 4), ACES |-> Rat(-1, 10), ACEC |-> Rat(1, 2), TF |-> Rat(1, 2),
       XX |-> Num(1)] }

\* the names left out of the mapping: at most MaxMissing of these three
MaxMissing == 1
Missing == {S \in SUBSET {"IA", "AN", "TF"} : Cardinality(S) <= MaxMissing}

Without(f, names) == [n \in DOMAIN f \ names |-> f[n]]

Means == {Without(b @@ e, m) : b \in BaseMeans, e \in ExtraMeans, m \in Missing}

EmptyDict == [n \in {} |-> Zero]

Configs ==
    {[mean |-> M, shape |-> s] : M \in Means, s \in {"nested", "flat"}}
    \cup {[mean |-> EmptyDict, shape |-> s] : s \in {"empty", "model_only"}}

\* the payload of a configuration: {"model": {"mean": M}}, {"mean": M}, {} or
\* {"model": {}}
Payload(c) ==
    CASE c.shape = "nested" -> [model |-> [mean |-> c.mean]]
      [] c.shape = "flat" -> [mean |-> c.mean]
      [] c.shape = "empty" -> EmptyDict
      [] c.shape = "model_only" -> [model |-> EmptyDict]

FactoryNames == {"CTBendBasic4", "CTBendBasic8", "Bogus", "ctbendbasic4", "CTBendBase", "sys"}

\* angles in degrees: multiples of 30, elevation away from +-90
AzGrid == {-30, 0, 120, 390}
ElGrid == {-60, 30}

----------------------------------------------------------------------------
(* State *)

VARIABLES
    config,     \* the configuration the caller holds
    model,      \* the model instance built from it (NoObject before)
    ret,        \* the last call: its name, arguments and outcome
    inv         \* the running (or ended) call of invert_bending_model

vars == << config, model, ret, inv >>

\* arg: the name given to the factory, the class given to a constructor
Call(op, arg, az, el, out) == [op |-> op, arg |-> arg, az |-> az, el |-> el, out |-> out]
NoCall == Call("", "", 0, 0, Return(Zero))

NoResult == [x |-> << 0, 0 >>, success |-> TRUE]

\* pc: "idle", "loop" (line 210), "check" (line 217), "append" (line 222),
\* "returned", "raised".  minimized: every call of scipy's minimize so far.
Inversion(pc, azimuth, elevation, i, res, ua, ue, minimized, out) ==
    [ pc |-> pc, azimuth |-> azimuth, elevation |-> elevation, i |-> i, res |-> res,
      uncorrected_azimuth |-> ua, uncorrected_elevation |-> ue,
      minimized |-> minimized, out |-> out ]

NoInversion == Inversion("idle", << >>, << >>, 0, NoResult, << >>, << >>, << >>, Return(Zero))

Init ==
    /\ config \in Configs
    /\ model = NoObject
    /\ ret = NoCall
    /\ inv = NoInversion

\* CTBendBasic4(parameters) / CTBendBasic8(parameters)
Construct(cls) ==
    /\ model.cls = ""
    /\ model' = CTBendBase__init__(cls, Payload(config))
    /\ ret' = Call("__init__", cls, 0, 0, Return(Zero))
    /\ UNCHANGED << config, inv >>

\* bending_factory({"name": name, ...payload})
Factory(name) ==
    /\ model.cls = ""
    /\ LET out == bending_factory(Payload(config) @@ ("name" :> name))
       IN  /\ model' = IF out.kind = "return" THEN out.value ELSE model
           /\ ret' = Call("bending_factory", name, 0, 0,
                          IF out.kind = "return" THEN Return(Zero) ELSE out)
    /\ UNCHANGED << config, inv >>

DeltaAzimuth(az, el) ==
    /\ model.cls # ""
    /\ ret' = Call("delta_azimuth", "", az, el, delta_azimuth(model, az, el))
    /\ UNCHANGED << config, model, inv >>

DeltaElevation(az, el) ==
    /\ model.cls # ""
    /\ ret' = Call("delta_elevation", "", az, el, delta_elevation(model, az, el))
    /\ UNCHANGED << config, model, inv >>

ModelParameters ==
    /\ model.cls # ""
    /\ ret' = Call("model_parameters", "", 0, 0, model_parameters(model))
    /\ UNCHANGED << config, model, inv >>

ModelParameterNames ==
    /\ model.cls # ""
    /\ ret' = Call("model_parameter_names", "", 0, 0, Return(model_parameter_names(model)))
    /\ UNCHANGED << config, model, inv >>

Next ==
    \/ \E cls \in Variants : Construct(cls)
    \/ \E name \in FactoryNames : Factory(name)
    \/ \E az \in AzGrid, el \in ElGrid : DeltaAzimuth(az, el)
    \/ \E az \in AzGrid, el \in ElGrid : DeltaElevation(az, el)
    \/ ModelParameters
    \/ ModelParameterNames

Spec == Init /\ [][Next]_vars

----------------------------------------------------------------------------
(* The term methods called on their own (radians in, dict of coefficients  *)
(* out), on an instance built as the module's __main__ block builds it.    *)

TermMethods ==
    { "azimuth_model_terms", "azimuth_derivative_phi", "azimuth_derivative_theta",
      "elevation_model_terms", "elevation_derivative_phi", "elevation_derivative_theta" }

TermAzGrid == {30 * k : k \in -1..11}
TermElGrid == {-60, -30, 0, 30, 60}

InitTerms ==
    /\ config = [mean |-> EmptyDict, shape |-> "empty"]
    /\ model = NoObject
    /\ ret = NoCall
    /\ inv = NoInversion

\* self.<method>(np.radians(az), np.radians(el))
CallTermMethod(method, az, el) ==
    /\ model.cls # ""
    /\ ret' = Call(method, "", az, el,
                   Return(CallTerms(model.cls, method, radians(az), radians(el))))
    /\ UNCHANGED << config, model, inv >>

NextTerms ==
    \/ \E cls \in Variants : Construct(cls)
    \/ \E method \in TermMethods, az \in TermAzGrid, el \in TermElGrid :
          CallTermMethod(method, az, el)

SpecTerms == InitTerms /\ [][NextTerms]_vars

----------------------------------------------------------------------------
(* invert_bending_model *)

\* the closure _telescope_pointing_inverter_loss_function of line 199, bound to self
_telescope_pointing_inverter_loss_function(self, x, az, el) ==
    LET az0 == x[1]
        el0 == x[2]
        da == delta_azimuth(self, az0, el0)
        de == delta_elevation(self, az0, el0)
    IN  IF da.kind = "raise" THEN da
        ELSE IF de.kind = "raise" THEN de
        ELSE LET a == Abs(Sub(Sub(Num(az), Num(az0)), da.value))
                 b == Abs(Sub(Sub(Num(el), Num(el0)), de.value))
             IN  Return(Add(a, b))

\* what `self.<attr>` finds on an instance: the attributes __init__ sets and
\* the methods and properties of the classes.  The loss function is a local
\* of invert_bending_model, not one of them.
InstanceAttrs ==
    { "parameters", "deg2arcsec", "_math", "name", "modelname",
      "azimuth_model_terms", "azimuth_derivative_phi", "azimuth_derivative_theta",
      "elevation_model_terms", "elevation_derivative_phi", "elevation_derivative_theta",
      "_pointing_correction", "delta_azimuth", "delta_elevation",
      "delta_azimuth_derivative_phi", "delta_elevation_derivative_phi",
      "delta_azimuth_derivative_theta", "delta_elevation_derivative_theta",
      "model_parameter_names", "model_parameters", "invert_bending_model" }

\* scipy.optimize.minimize is not part of the repository: a search started at
\* x0 ends at some point no worse than x0 (the points it may end at are taken
\* from the steps below) and reports success or not.
SearchSteps == {<< 0, 0 >>, << -30, 0 >>, << 0, 30 >>, << 30, -30 >>}

SearchEnds(self, x0, az, el) ==
    LET f0 == _telescope_pointing_inverter_loss_function(self, x0, az, el).value
    IN  { x \in {<< x0[1] + s[1], x0[2] + s[2] >> : s \in SearchSteps} :
            /\ x[2] \in -60..60
            /\ Leq(_telescope_pointing_inverter_loss_function(self, x, az, el).value, f0) }

Minimized(pair, method, fun, x0, res) ==
    [pair |-> pair, method |-> method, fun |-> fun, x0 |-> x0, res |-> res]

\* the batches a caller passes: pairs of these angles, at most MaxPairs of them
MaxPairs == 2
InvertPairs == {<< 0, 30 >>, << 120, -60 >>, << 390, 30 >>}

RECURSIVE SeqsUpTo(_, _)
SeqsUpTo(S, n) ==
    IF n = 0 THEN {<< >>}
    ELSE LET shorter == SeqsUpTo(S, n - 1)
         IN  shorter \cup {Append(q, x) : q \in shorter, x \in S}

Batches == SeqsUpTo(InvertPairs, MaxPairs)

\* lines 193-197: the call, up to the head of the loop
InvertBegin(batch) ==
    /\ model.cls # ""
    /\ inv.pc \in {"idle", "returned", "raised"}
    /\ inv' = Inversion("loop", [k \in 1..Len(batch) |-> batch[k][1]],
                        [k \in 1..Len(batch) |-> batch[k][2]], 1, NoResult,
                        << >>, << >>, << >>, Return(Zero))
    /\ ret' = Call("invert_bending_model", "", 0, 0, Return(Zero))
    /\ UNCHANGED << config, model >>

\* lines 210-215: the next pair of zip(azimuth, elevation) and its Nelder-Mead
\* search; an exception of the loss function leaves the call
PrimarySearch ==
    /\ inv.pc = "loop"
    /\ inv.i <= Len(inv.azimuth)
    /\ LET az == inv.azimuth[inv.i]
           el == inv.elevation[inv.i]
           x0 == << az, el >>
           f0 == _telescope_pointing_inverter_loss_function(model, x0, az, el)
       IN  IF f0.kind = "raise"
           THEN inv' = [inv EXCEPT !.pc = "raised", !.out = f0]
           ELSE \E x \in SearchEnds(model, x0, az, el), ok \in BOOLEAN :
                  LET res == [x |-> x, success |-> ok]
                  IN  inv' = [inv EXCEPT
                                !.pc = "check", !.res = res,
                                !.minimized = Append(@, Minimized(inv.i, "nelder-mead",
                                    "_telescope_pointing_inverter_loss_function", x0, res))]
    /\ UNCHANGED << config, model, ret >>

\* lines 217-220: `res.success is False`, then the L-BFGS-B search on
\* self._telescope_pointing_inverter_loss_function
FallbackSearch ==
    /\ inv.pc = "check"
    /\ inv.res.success = FALSE
    /\ LET az == inv.azimuth[inv.i]
           el == inv.elevation[inv.i]
           x0 == << az, el >>
           attr == "_telescope_pointing_inverter_loss_function"
       IN  IF attr \notin InstanceAttrs
           THEN inv' = [inv EXCEPT !.pc = "raised", !.out = Raise("AttributeError", attr)]
           ELSE \E x \in SearchEnds(model, x0, az, el), ok \in BOOLEAN :
                  LET res == [x |-> x, success |-> ok]
                  IN  inv' = [inv EXCEPT
                                !.pc = "append", !.res = res,
                                !.minimized = Append(@, Minimized(inv.i, "L-BFGS-B",
                                    attr, x0, res))]
    /\ UNCHANGED << config, model, ret >>

\* line 217 when the search reported success: on to line 222
SkipFallback ==
    /\ inv.pc = "check"
    /\ inv.res.success = TRUE
    /\ inv' = [inv EXCEPT !.pc = "append"]
    /\ UNCHANGED << config, model, ret >>

\* lines 222-223
AppendResult ==
    /\ inv.pc = "append"
    /\ inv' = [inv EXCEPT
                 !.pc = "loop", !.i = @ + 1,
                 !.uncorrected_azimuth = Append(@, inv.res.x[1]),
                 !.uncorrected_elevation = Append(@, inv.res.x[2])]
    /\ UNCHANGED << config, model, ret >>

\* line 225
InvertReturn ==
    /\ inv.pc = "loop"
    /\ inv.i > Len(inv.azimuth)
    /\ inv' = [inv EXCEPT
                 !.pc = "returned",
                 !.out = Return(<< inv.uncorrected_azimuth, inv.uncorrected_elevation >>)]
    /\ UNCHANGED << config, model, ret >>

\* the models whose inversion is explored
InvertMeans ==
    LET full == [IA |-> Rat(1, 10), IE |-> Rat(-1, 2), AW |-> Rat(1, 4), AN |-> Zero,
                 NPAE |-> Zero, ACES |-> Rat(-1, 10), ACEC |-> Zero, TF |-> Rat(1, 2)]
    IN  { full, [n \in DOMAIN full |-> Zero], Without(full, {"IE"}) }

InitInvert ==
    /\ config \in {[mean |-> M, shape |-> "nested"] : M \in InvertMeans}
    /\ model = NoObject
    /\ ret = NoCall
    /\ inv = NoInversion

NextInvert ==
    \/ \E cls \in Variants : Construct(cls)
    \/ \E batch \in Batches : InvertBegin(batch)
    \/ PrimarySearch
    \/ FallbackSearch
    \/ SkipFallback
    \/ AppendResult
    \/ InvertReturn

SpecInvert == InitInvert /\ [][NextInvert]_vars

----------------------------------------------------------------------------
(* Helpers of the properties *)

DeltaOps == {"delta_azimuth", "delta_elevation"}
Axis(op) == IF op = "delta_azimuth" THEN "azimuth" ELSE "elevation"
HasMean(c) == c.shape \in {"nested", "flat"}

\* the term mapping the call recorded in ret evaluated
TermsOfCall ==
    IF ret.op = "delta_azimuth"
    THEN azimuth_model_terms(model.cls, radians(ret.az), radians(ret.el))
    ELSE elevation_model_terms(model.cls, radians(ret.az), radians(ret.el))

\* sum over a set of names of p[name] * coefficient[name]
RECURSIVE SetSum(_, _, _)
SetSum(S, p, terms) ==
    IF S = {} THEN Zero
    ELSE LET n == CHOOSE n \in S : TRUE
         IN  Add(Mul(p[n], Lookup(terms, n)), SetSum(S \ {n}, p, terms))

Restrict(f, S) == [n \in S |-> f[n]]

BaseNames == {"IA", "IE", "AW", "AN"}
ExtraNames == {"NPAE", "ACES", "ACEC", "TF"}

\* the calculus derivative of a coefficient expression with respect to v
RECURSIVE Diff(_, _)
Diff(e, v) ==
    CASE e.op = "const" -> Const(0)
      [] e.op = "sin" -> IF e.v = v THEN CosOf(v) ELSE Const(0)
      [] e.op = "cos" -> IF e.v = v THEN NegE(SinOf(v)) ELSE Const(0)
      [] e.op = "tan" -> IF e.v = v THEN DivE(Const(1), MulE(CosOf(v), CosOf(v))) ELSE Const(0)
      [] e.op = "neg" -> NegE(Diff(e.x, v))
      [] e.op = "add" -> AddE(Diff(e.l, v), Diff(e.r, v))
      [] e.op = "sub" -> SubE(Diff(e.l, v), Diff(e.r, v))
      [] e.op = "mul" -> AddE(MulE(Diff(e.l, v), e.r), MulE(e.l, Diff(e.r, v)))
      [] e.op = "div" -> DivE(SubE(MulE(Diff(e.l, v), e.r), MulE(e.l, Diff(e.r, v))),
                              MulE(e.r, e.r))

----------------------------------------------------------------------------
(* Properties *)

\* C1: whenever the resolved parameter mapping contains every name of the term
\* mapping, delta_azimuth / delta_elevation return the sum, over exactly the
\* names the term function returns, of parameter value times coefficient; keys
\* of the mapping outside the term mapping change nothing (the call on the
\* mapping restricted to the term names has the same outcome); Basic-4 with
\* AW = AN = 0 gives delta_azimuth = -IA.
C1_ForwardIsWeightedSum ==
    (ret.op \in DeltaOps /\ HasMean(config)) =>
        LET names == KeySet(TermsOfCall)
            p == config.mean
            trimmed == CTBendBase__init__(model.cls, [mean |-> Restrict(p, names)])
        IN  names \subseteq DOMAIN p =>
              /\ ret.out.kind = "return"
              /\ ret.out.value = SetSum(names, p, TermsOfCall)
              /\ ret.out = _pointing_correction(trimmed, ret.az, ret.el, Axis(ret.op))
              /\ (model.cls = "CTBendBasic4" /\ ret.op = "delta_azimuth"
                    /\ p["AW"] = Zero /\ p["AN"] = Zero)
                 => ret.out.value = Neg(p["IA"])

\* a Basic-8 model whose mapping holds a key no variant knows returned an
\* irrational azimuth correction
C1_Witness ==
    /\ ret.op = "delta_azimuth"
    /\ model.cls = "CTBendBasic8"
    /\ HasMean(config)
    /\ "XX" \in DOMAIN config.mean
    /\ ret.out.kind = "return"
    /\ ret.out.value.b # 0

\* C2: construction, direct or through the factory, succeeds whatever the
\* payload lacks; a delta_azimuth / delta_elevation call whose term mapping
\* contains a name the payload does not resolve raises KeyError and returns no
\* value, and the KeyError names a missing key: a parameter name of the term
\* mapping that the mean mapping lacks, or "mean" when the payload has no mean
\* mapping at all.
C2_MissingParameterAtEvaluation ==
    /\ ret.op = "__init__" =>
          /\ ret.out.kind = "return"
          /\ model = CTBendBase__init__(ret.arg, Payload(config))
    /\ (ret.op = "bending_factory" /\ ret.arg \in Variants) =>
          /\ ret.out.kind = "return"
          /\ model.cls = ret.arg
    /\ ret.op \in DeltaOps =>
          LET names == KeySet(TermsOfCall)
              missing == IF HasMean(config) THEN names \ DOMAIN config.mean ELSE names
          IN  missing # {} =>
                /\ ret.out.kind = "raise"
                /\ ret.out.exc = "KeyError"
                /\ ret.out.key \in (IF HasMean(config) THEN missing ELSE {"mean"})

\* a Basic-8 model built by the factory from a payload without TF raised
\* KeyError('TF') from delta_elevation
C2_Witness ==
    /\ ret.op = "delta_elevation"
    /\ model.cls = "CTBendBasic8"
    /\ "name" \in DOMAIN model.parameters
    /\ ret.out = Raise("KeyError", "TF")

\* C3: for the nested payload {"model": {"mean": M}} and the flat payload
\* {"mean": M}, model_parameters is M, and delta_azimuth / delta_elevation
\* have the outcome they have on a model of the same variant built from the
\* other shape of the same M.
C3_ShapesResolveIdentically ==
    HasMean(config) =>
        LET othershape == IF config.shape = "nested" THEN "flat" ELSE "nested"
            other == CTBendBase__init__(model.cls,
                                        Payload([mean |-> config.mean, shape |-> othershape]))
        IN  /\ ret.op = "model_parameters" => ret.out = Return(config.mean)
            /\ ret.op \in DeltaOps =>
                  ret.out = _pointing_correction(other, ret.az, ret.el, Axis(ret.op))

\* model_parameters of a model built from a nested payload returned a
\* non-empty mapping
C3_Witness ==
    /\ ret.op = "model_parameters"
    /\ config.shape = "nested"
    /\ ret.out.kind = "return"
    /\ "AW" \in DOMAIN ret.out.value
    /\ ret.out.value["AW"] # Zero

\* C4: bending_factory with a name outside {CTBendBasic4, CTBendBasic8} ends
\* in the unknown-model error of the name lookup (AttributeError for that
\* name) and builds no model.
C4_FactoryRejectsUnknownNames ==
    (ret.op = "bending_factory" /\ ret.arg \notin Variants) =>
        /\ ret.out = Raise("AttributeError", ret.arg)
        /\ model.cls = ""

\* C7: a Basic-8 model whose NPAE, ACES, ACEC and TF are zero returns from
\* delta_azimuth and delta_elevation what a Basic-4 model with the same IA,
\* IE, AW, AN returns.
C7_Basic8ReducesToBasic4 ==
    (/\ ret.op \in DeltaOps
     /\ model.cls = "CTBendBasic8"
     /\ HasMean(config)
     /\ BaseNames \cup ExtraNames \subseteq DOMAIN config.mean
     /\ \A n \in ExtraNames : config.mean[n] = Zero) =>
        LET basic4 == CTBendBase__init__("CTBendBasic4",
                                         [mean |-> Restrict(config.mean, BaseNames)])
        IN  /\ ret.out.kind = "return"
            /\ ret.out = _pointing_correction(basic4, ret.az, ret.el, Axis(ret.op))

\* such a Basic-8 model returned an irrational azimuth correction
C7_Witness ==
    /\ ret.op = "delta_azimuth"
    /\ model.cls = "CTBendBasic8"
    /\ HasMean(config)
    /\ BaseNames \cup ExtraNames \subseteq DOMAIN config.mean
    /\ \A n \in ExtraNames : config.mean[n] = Zero
    /\ config.mean["AN"] # Zero
    /\ ret.out.kind = "return"
    /\ ret.out.value.b # 0

\* C8: model_parameter_names is, on every call, the sorted duplicate-free list
\* of the keys of azimuth_model_terms and elevation_model_terms (AN, AW, IA, IE
\* for Basic-4; all eight names for Basic-8), and the key sets of both term
\* functions are the same at every angle pair as at (0, 0).
C8_ParameterNamesStructural ==
    ret.op = "model_parameter_names" =>
        LET names == ret.out.value
            az0 == KeySet(azimuth_model_terms(model.cls, RadZero, RadZero))
            el0 == KeySet(elevation_model_terms(model.cls, RadZero, RadZero))
        IN  /\ names = IF model.cls = "CTBendBasic4"
                       THEN << "AN", "AW", "IA", "IE" >>
                       ELSE << "ACEC", "ACES", "AN", "AW", "IA", "IE", "NPAE", "TF" >>
            /\ {names[i] : i \in 1..Len(names)} = az0 \cup el0
            /\ \A az \in AzGrid, el \in ElGrid :
                  /\ KeySet(azimuth_model_terms(model.cls, radians(az), radians(el))) = az0
                  /\ KeySet(elevation_model_terms(model.cls, radians(az), radians(el))) = el0

\* model_parameter_names was read from a Basic-8 model and held eight names
C8_Witness ==
    /\ ret.op = "model_parameter_names"
    /\ model.cls = "CTBendBasic8"
    /\ Len(ret.out.value) = 8

\* C10: each derivative table has the key set of its value table, and each
\* of its coefficients is the derivative, with respect to az (phi) or el
\* (theta), of the same name's coefficient in the value table, at every angle
\* pair of the grid.
C10_DerivativeTablesAreDerivatives ==
    ret.op \in TermMethods \ {"azimuth_model_terms", "elevation_model_terms"} =>
        LET valuemethod == IF ret.op \in {"azimuth_derivative_phi", "azimuth_derivative_theta"}
                           THEN "azimuth_model_terms" ELSE "elevation_model_terms"
            v == IF ret.op \in {"azimuth_derivative_phi", "elevation_derivative_phi"}
                 THEN "az" ELSE "el"
            value == TermTable(model.cls, valuemethod)
            d == ret.out.value
        IN  /\ KeySet(d) = KeySet(value)
            /\ \A i \in 1..Len(d) :
                  d[i].coef = Eval(Diff(Lookup(value, d[i].name), v),
                                   radians(ret.az), radians(ret.el))

\* azimuth_derivative_theta of Basic-8 at el = 60 degrees returned
\* NPAE = -1/cos^2(el) = -4 and AW = -cos(az)/cos^2(el) = -2*sqrt(3)
C10_Witness ==
    /\ ret.op = "azimuth_derivative_theta"
    /\ model.cls = "CTBendBasic8"
    /\ ret.az = 30
    /\ ret.el = 60
    /\ Lookup(ret.out.value, "NPAE") = Num(-4)
    /\ Lookup(ret.out.value, "AW") = Norm(0, -2, 1)

----------------------------------------------------------------------------
(* Properties of invert_bending_model *)

\* every name the variant's term functions use is in the mean mapping
ModelComplete ==
    /\ model.cls # ""
    /\ HasMean(config)
    /\ KeySet(TermTable(model.cls, "azimuth_model_terms"))
         \cup KeySet(TermTable(model.cls, "elevation_model_terms")) \subseteq DOMAIN config.mean

Ended == inv.pc \in {"returned", "raised"}

\* the searches run for input pair i, in the order run
SearchesOf(i) == SelectSeq(inv.minimized, LAMBDA m : m.pair = i)

\* C5: whatever the searches report, the call of invert_bending_model on a
\* fully parameterised model does not raise, and once it has returned, the
\* point recorded for each pair is the point of the last search run for it.
C5_NonConvergenceIsNotFatal ==
    ModelComplete =>
        /\ inv.pc # "raised"
        /\ inv.pc = "returned" =>
              \A i \in 1..Len(inv.azimuth) :
                  LET last == SearchesOf(i)[Len(SearchesOf(i))]
                  IN  << inv.uncorrected_azimuth[i], inv.uncorrected_elevation[i] >> = last.res.x

\* C6: a call that has ended has returned two sequences, each as long as the
\* input, whose position i holds the point found by a search started at input
\* pair i.
C6_OnePairPerInputInOrder ==
    (ModelComplete /\ Ended) =>
        /\ inv.out.kind = "return"
        /\ Len(inv.out.value[1]) = Len(inv.azimuth)
        /\ Len(inv.out.value[2]) = Len(inv.elevation)
        /\ \A i \in 1..Len(inv.azimuth) :
              \E k \in 1..Len(inv.minimized) :
                  /\ inv.minimized[k].pair = i
                  /\ inv.minimized[k].x0 = << inv.azimuth[i], inv.elevation[i] >>
                  /\ inv.minimized[k].res.x = << inv.out.value[1][i], inv.out.value[2][i] >>

\* C9: in a call that has ended, every pair whose Nelder-Mead search did not
\* report success had an L-BFGS-B search run from the same x0 on the same loss
\* function, and no pair whose Nelder-Mead search reported success had one.
C9_FallbackAfterFailedPrimary ==
    (ModelComplete /\ Ended) =>
        \A k \in 1..Len(inv.minimized) :
            LET first == inv.minimized[k]
                second == {j \in 1..Len(inv.minimized) :
                              /\ inv.minimized[j].pair = first.pair
                              /\ inv.minimized[j].method = "L-BFGS-B"}
            IN  first.method = "nelder-mead" =>
                  IF first.res.success
                  THEN second = {}
                  ELSE \E j \in second :
                          /\ inv.minimized[j].x0 = first.x0
                          /\ inv.minimized[j].fun = first.fun

====
